---- MODULE Spec2Model ----
(***************************************************************************)
(* Model of architectures/g_unet.py: the U-Net graph builder g_unet and    *)
(* the layer wrappers it uses.  The builder is followed statement by       *)
(* statement; every layer it constructs is appended to `layers` together   *)
(* with the tensors it reads and the shape of the tensor it produces.      *)
(* Tensors are records [id, shape]: id is the index in `layers` of the     *)
(* layer that produced the tensor, shape is the 4-tuple of the tensor for  *)
(* an input batch of batch_size samples, in the axis order of the ambient  *)
(* image dimension ordering.                                               *)
(***************************************************************************)
EXTENDS Integers, Sequences, FiniteSets

VARIABLES
    image_dim_ordering, \* K.image_dim_ordering(), the ambient axis convention
    KERAS_2,            \* module flag chosen at import
    args,               \* the arguments of the call of g_unet
    pc,                 \* position of the builder: [part, stage, op, z]
    merge_params,       \* the dict merge_params
    i,                  \* the Input tensor
    x,                  \* the builder's variable x
    conv,               \* the variables conv1 .. conv9
    dconv,              \* the variables dconv1 .. dconv9
    px,                 \* the variable x local to padded_conv
    out,                \* the variable out
    layers,             \* every layer constructed so far, in order
    unet,               \* the returned Model, or NoModel
    raised              \* the exception raised, or "none"

vars == <<image_dim_ordering, KERAS_2, args, pc, merge_params, i, x, conv,
          dconv, px, out, layers, unet, raised>>

(***************************************************************************)
(* Bounds of the model.                                                    *)
(***************************************************************************)
MaxCh == 2
MaxNf == 2
MaxBatch == 1
MaxPadded == 2

(***************************************************************************)
(* Program constants.                                                      *)
(***************************************************************************)
InputSize == 512
NumStages == 9
DefaultKernel == 3
DefaultStride == 2
DeconvKernel == 2
DefaultBatchNormAxis == 1

Orderings == {"th", "tf", "other"}

NoTensor == [id |-> 0, shape |-> <<>>]
NoModel == [name |-> "", input |-> NoTensor, output |-> NoTensor]

Max(a, b) == IF a >= b THEN a ELSE b

RECURSIVE Pow2(_)
Pow2(n) == IF n = 0 THEN 1 ELSE 2 * Pow2(n - 1)

(***************************************************************************)
(* get_deconv_shape: the shape tuple in the axis order of the convention.  *)
(***************************************************************************)
get_deconv_shape(o, samples, channels, x_dim, y_dim) ==
    IF o = "th" THEN <<samples, channels, x_dim, y_dim>>
                ELSE <<samples, x_dim, y_dim, channels>>

\* Keras axis numbers (0-based) of a shape tuple; TLA+ tuples are 1-based.
ChannelAxis(o) == IF o = "th" THEN 1 ELSE 3
RowAxis(o) == IF o = "th" THEN 2 ELSE 1
ColAxis(o) == IF o = "th" THEN 3 ELSE 2
Dim(sh, axis) == sh[axis + 1]

(***************************************************************************)
(* Input(shape=...): the placeholder, for a batch of `samples` inputs.     *)
(***************************************************************************)
InputShape(o, samples, in_ch) ==
    IF o = "th" THEN <<samples, in_ch, InputSize, InputSize>>
                ELSE <<samples, InputSize, InputSize, in_ch>>

(***************************************************************************)
(* Convolution(f, k, s, border_mode): output shape of Convolution2D.       *)
(***************************************************************************)
\* a faulty variant: border_mode is ignored and every convolution is 'valid'
ConvLength_IgnoresBorder(n, k, s, border_mode) == (n - k + s) \div s

ConvLength(n, k, s, border_mode) ==
    LET len == IF border_mode = "same" THEN n ELSE n - k + 1
    IN  (len + s - 1) \div s

Convolution(o, f, k, s, border_mode, sh) ==
    get_deconv_shape(o, Dim(sh, 0), f,
                     ConvLength(Dim(sh, RowAxis(o)), k, s, border_mode),
                     ConvLength(Dim(sh, ColAxis(o)), k, s, border_mode))

(***************************************************************************)
(* Deconvolution(f, output_shape, k, s): Conv2DTranspose computes its      *)
(* output size from the input; Deconvolution2D takes rows and columns from *)
(* the output_shape it is given.                                           *)
(***************************************************************************)
\* a faulty variant: the stride is not taken off the kernel size
DeconvLength_NoStrideOffset(n, k, s) == n * s + k

DeconvLength(n, k, s) == n * s + Max(k - s, 0)

Deconvolution(keras2, o, f, output_shape, k, s, sh) ==
    IF keras2
    THEN get_deconv_shape(o, Dim(sh, 0), f,
                          DeconvLength(Dim(sh, RowAxis(o)), k, s),
                          DeconvLength(Dim(sh, ColAxis(o)), k, s))
    ELSE get_deconv_shape(o, Dim(sh, 0), f,
                          Dim(output_shape, RowAxis(o)),
                          Dim(output_shape, ColAxis(o)))

(***************************************************************************)
(* BatchNorm(mode=2, axis=1): the axis the layer normalizes along.         *)
(***************************************************************************)
BatchNorm(axis) == axis

(***************************************************************************)
(* concatenate_layers(inputs, concat_axis): the inputs may differ only in  *)
(* the concatenation axis; the output sums that axis.                      *)
(***************************************************************************)
ConcatCompatible(a, b, concat_axis) ==
    /\ Len(a) = Len(b)
    /\ \A ax \in 0..(Len(a) - 1) : ax # concat_axis => Dim(a, ax) = Dim(b, ax)

\* a faulty variant: the 0-based axis is used as a 1-based tuple position
concatenate_layers_WrongAxis(a, b, concat_axis) ==
    [n \in 1..Len(a) |->
        IF n = concat_axis THEN a[n] + b[n] ELSE a[n]]

concatenate_layers(a, b, concat_axis) ==
    [n \in 1..Len(a) |->
        IF n = concat_axis + 1 THEN a[n] + b[n] ELSE a[n]]

(***************************************************************************)
(* The stage tables of g_unet: what each of the repeated stage blocks      *)
(* passes to the wrappers.                                                 *)
(***************************************************************************)
EncStages == 1..NumStages
DecStages == 1..NumStages
SkipStages == 1..(NumStages - 1)

\* f of Convolution(f, ...) in encoder stage k
EncFilters(k, nf) ==
    CASE k = 1 -> nf
      [] k = 2 -> nf * 2
      [] k = 3 -> nf * 4
      [] OTHER -> nf * 8

\* conv9 = Convolution(nf * 8, k=2, s=1, border_mode='valid')
EncKernel(k) == IF k = NumStages THEN 2 ELSE DefaultKernel
EncStride(k) == IF k = NumStages THEN 1 ELSE DefaultStride
EncBorder(k) == IF k = NumStages THEN "valid" ELSE "same"

\* f of Deconvolution(f, ...) in decoder stage j
DecFilters(j, nf, out_ch) ==
    CASE j \in 1..5 -> nf * 8
      [] j = 6 -> nf * 4
      [] j = 7 -> nf * 2
      [] j = 8 -> nf
      [] OTHER -> out_ch

\* x_dim = y_dim of get_deconv_shape(...) in decoder stage j: 2, 4, .., 512
DecSize(j) == Pow2(j)

\* dconv1 = Deconvolution(..., k=2, s=1)
DecStride(j) == IF j = 1 THEN 1 ELSE DefaultStride

\* a faulty variant: decoder stage j is merged with conv<j>
SkipOf_SameIndex(j) == j

\* the encoder variable conv<k> that decoder stage j concatenates with
SkipOf(j) == NumStages - j

\* a faulty variant: no Dropout statement in decoder stage 3
HasDropout_FirstTwo(j) == j \in {1, 2}

\* the decoder stages with a Dropout(0.5) statement
HasDropout(j) == j \in {1, 2, 3}

\* a faulty variant: the Dropout statement is written after the merge
DecOrder_DropoutAfterMerge ==
    <<"deconv", "bn", "concat", "drop", "act", "pconv">>

\* the statements of a decoder stage, in the order they are written; a
\* stage without a Dropout statement goes from BatchNorm to the merge
DecOrder == <<"deconv", "bn", "drop", "concat", "act", "pconv">>

After(order, op) ==
    LET n == CHOOSE m \in 1..Len(order) : order[m] = op
    IN  order[n + 1]

DecNextOp(j, op) ==
    LET nxt == After(DecOrder, op)
    IN  IF nxt = "drop" /\ ~HasDropout(j) THEN After(DecOrder, nxt) ELSE nxt

\* nf of padded_conv(nf, x) after encoder stage k / decoder stage j
EncPaddedFilters(k, nf) == EncFilters(k, nf)

DecPaddedFilters(j, nf) ==
    CASE j \in 1..5 -> nf * 8
      [] j = 6 -> nf * 4
      [] j = 7 -> nf * 2
      [] OTHER -> nf

\* a faulty variant: the loop runs once more
Range_Inclusive(n) == 0..n

\* for z in range(num_padded_conv)
Range(n) == 0..(n - 1)

\* a faulty variant: the two activations are exchanged
ActName_Swapped(is_binary) == IF is_binary THEN "tanh" ELSE "sigmoid"

\* act = 'sigmoid' if is_binary else 'tanh'
ActName(is_binary) == IF is_binary THEN "sigmoid" ELSE "tanh"

\* a faulty variant: the second branch is a plain else
Supported_Any(o) == TRUE

\* the conventions the builder has a branch for
Supported(o) == o \in {"th", "tf"}

(***************************************************************************)
(* Layers and tensors.                                                     *)
(***************************************************************************)
Layer(kind, part, stage, refine, ins, shape, axis, act) ==
    [kind |-> kind, part |-> part, stage |-> stage, refine |-> refine,
     ins |-> ins, out |-> shape, axis |-> axis, act |-> act]

\* the tensor the next constructed layer returns
NewTensor(sh) == [id |-> Len(layers) + 1, shape |-> sh]

Pc(part, stage, op, z) == [part |-> part, stage |-> stage, op |-> op, z |-> z]

Args ==
    [in_ch : 1..MaxCh, out_ch : 1..MaxCh, nf : 1..MaxNf,
     batch_size : 1..MaxBatch, is_binary : BOOLEAN,
     num_padded_conv : 0..MaxPadded, name : {"unet"}]

Init ==
    /\ image_dim_ordering = "th"
    /\ KERAS_2 \in BOOLEAN
    /\ args \in Args
    /\ pc = Pc("start", 0, "call", 0)
    /\ merge_params = [mode |-> "none", concat_axis |-> 0]
    /\ i = NoTensor
    /\ x = NoTensor
    /\ conv = [k \in EncStages |-> NoTensor]
    /\ dconv = [j \in DecStages |-> NoTensor]
    /\ px = NoTensor
    /\ out = NoTensor
    /\ layers = <<>>
    /\ unet = NoModel
    /\ raised = "none"

(***************************************************************************)
(* The ambient configuration: the module sets 'th' when it is imported;    *)
(* a caller may select another ordering before it calls g_unet.            *)
(***************************************************************************)
set_image_dim_ordering ==
    /\ pc.part = "start"
    /\ \E o \in Orderings \ {image_dim_ordering} : image_dim_ordering' = o
    /\ UNCHANGED <<KERAS_2, args, pc, merge_params, i, x, conv, dconv, px,
                   layers, out, unet, raised>>

(***************************************************************************)
(* g_unet, lines 84-106: merge_params, the Input and the choice of         *)
(* get_deconv_shape, or the ValueError.                                    *)
(***************************************************************************)
Start ==
    /\ pc.part = "start"
    /\ IF Supported(image_dim_ordering)
       THEN LET sh == InputShape(image_dim_ordering, args.batch_size, args.in_ch)
            IN  /\ layers' = Append(layers,
                       Layer("Input", "input", 0, FALSE, <<>>, sh, -1, ""))
                /\ i' = NewTensor(sh)
                /\ merge_params' =
                       [mode |-> "concat",
                        concat_axis |-> IF image_dim_ordering = "th" THEN 1 ELSE 3]
                /\ pc' = Pc("enc", 1, "conv", 0)
                /\ UNCHANGED raised
       ELSE /\ merge_params' = [mode |-> "concat", concat_axis |-> 1]
            /\ raised' = "ValueError"
            /\ pc' = Pc("raised", 0, "none", 0)
            /\ UNCHANGED <<layers, i>>
    /\ UNCHANGED <<image_dim_ordering, KERAS_2, args, x, conv, dconv, px,
                   out, unet>>

(***************************************************************************)
(* Encoder stage k: conv<k> = Convolution(..)(x); BatchNorm(); LeakyReLU.  *)
(***************************************************************************)
EncConvolution ==
    /\ pc.part = "enc" /\ pc.op = "conv"
    /\ LET k == pc.stage
           in == IF k = 1 THEN i ELSE x
           sh == Convolution(image_dim_ordering, EncFilters(k, args.nf),
                             EncKernel(k), EncStride(k), EncBorder(k), in.shape)
       IN  /\ layers' = Append(layers,
                  Layer("Convolution", "enc", k, FALSE, <<in.id>>, sh, -1, ""))
           /\ conv' = [conv EXCEPT ![k] = NewTensor(sh)]
           /\ pc' = Pc("enc", k, "bn", 0)
    /\ UNCHANGED <<image_dim_ordering, KERAS_2, args, merge_params, i, x,
                   dconv, px, out, unet, raised>>

EncBatchNorm ==
    /\ pc.part = "enc" /\ pc.op = "bn"
    /\ LET k == pc.stage
           in == conv[k]
       IN  /\ layers' = Append(layers,
                  Layer("BatchNorm", "enc", k, FALSE, <<in.id>>, in.shape,
                        BatchNorm(DefaultBatchNormAxis), ""))
           /\ conv' = [conv EXCEPT ![k] = NewTensor(in.shape)]
           /\ pc' = Pc("enc", k, "act", 0)
    /\ UNCHANGED <<image_dim_ordering, KERAS_2, args, merge_params, i, x,
                   dconv, px, out, unet, raised>>

\* stages 1..8 go on to padded_conv(nf*m, conv<k>); stage 9 assigns x and
\* the decoder starts
EncLeakyReLU ==
    /\ pc.part = "enc" /\ pc.op = "act"
    /\ LET k == pc.stage
           in == conv[k]
       IN  /\ layers' = Append(layers,
                  Layer("LeakyReLU", "enc", k, FALSE, <<in.id>>, in.shape, -1, "leaky"))
           /\ IF k < NumStages
              THEN /\ conv' = [conv EXCEPT ![k] = NewTensor(in.shape)]
                   /\ px' = NewTensor(in.shape)
                   /\ pc' = Pc("enc", k, "pconv", 0)
                   /\ UNCHANGED x
              ELSE /\ x' = NewTensor(in.shape)
                   /\ pc' = Pc("dec", 1, "deconv", 0)
                   /\ UNCHANGED <<conv, px>>
    /\ UNCHANGED <<image_dim_ordering, KERAS_2, args, merge_params, i,
                   dconv, out, unet, raised>>

(***************************************************************************)
(* padded_conv(nf, x): num_padded_conv times Convolution(nf, s=1),         *)
(* BatchNorm(), LeakyReLU(0.2); then return x.                             *)
(***************************************************************************)
PaddedFilters ==
    IF pc.part = "enc" THEN EncPaddedFilters(pc.stage, args.nf)
                       ELSE DecPaddedFilters(pc.stage, args.nf)

PaddedConvolution ==
    /\ pc.part \in {"enc", "dec"} /\ pc.op = "pconv"
    /\ pc.z \in Range(args.num_padded_conv)
    /\ LET sh == Convolution(image_dim_ordering, PaddedFilters,
                             DefaultKernel, 1, "same", px.shape)
       IN  /\ layers' = Append(layers,
                  Layer("Convolution", pc.part, pc.stage, TRUE, <<px.id>>, sh, -1, ""))
           /\ px' = NewTensor(sh)
           /\ pc' = Pc(pc.part, pc.stage, "pbn", pc.z)
    /\ UNCHANGED <<image_dim_ordering, KERAS_2, args, merge_params, i, x,
                   conv, dconv, out, unet, raised>>

PaddedBatchNorm ==
    /\ pc.part \in {"enc", "dec"} /\ pc.op = "pbn"
    /\ layers' = Append(layers,
           Layer("BatchNorm", pc.part, pc.stage, TRUE, <<px.id>>, px.shape,
                 BatchNorm(DefaultBatchNormAxis), ""))
    /\ px' = NewTensor(px.shape)
    /\ pc' = Pc(pc.part, pc.stage, "pact", pc.z)
    /\ UNCHANGED <<image_dim_ordering, KERAS_2, args, merge_params, i, x,
                   conv, dconv, out, unet, raised>>

PaddedLeakyReLU ==
    /\ pc.part \in {"enc", "dec"} /\ pc.op = "pact"
    /\ layers' = Append(layers,
           Layer("LeakyReLU", pc.part, pc.stage, TRUE, <<px.id>>, px.shape, -1, "leaky"))
    /\ px' = NewTensor(px.shape)
    /\ pc' = Pc(pc.part, pc.stage, "pconv", pc.z + 1)
    /\ UNCHANGED <<image_dim_ordering, KERAS_2, args, merge_params, i, x,
                   conv, dconv, out, unet, raised>>

\* the loop is over: return x.  In the encoder the caller assigns conv<k>
\* and then x = conv<k>; in the decoder it assigns x.
PaddedReturn ==
    /\ pc.part \in {"enc", "dec"} /\ pc.op = "pconv"
    /\ pc.z \notin Range(args.num_padded_conv)
    /\ x' = px
    /\ IF pc.part = "enc"
       THEN /\ conv' = [conv EXCEPT ![pc.stage] = px]
            /\ pc' = Pc("enc", pc.stage + 1, "conv", 0)
       ELSE /\ UNCHANGED conv
            /\ pc' = Pc("dec", pc.stage + 1, "deconv", 0)
    /\ UNCHANGED <<image_dim_ordering, KERAS_2, args, merge_params, i,
                   dconv, px, layers, out, unet, raised>>

(***************************************************************************)
(* Decoder stage j: dconv<j> = Deconvolution(..)(x); BatchNorm(); Dropout  *)
(* where the stage has one; x = concatenate_layers([dconv<j>, conv<9-j>]); *)
(* x = LeakyReLU(0.2)(x); x = padded_conv(.., x).                          *)
(***************************************************************************)
DecDeconvolution ==
    /\ pc.part = "dec" /\ pc.op = "deconv"
    /\ LET j == pc.stage
           f == DecFilters(j, args.nf, args.out_ch)
           output_shape == get_deconv_shape(image_dim_ordering, args.batch_size,
                                            f, DecSize(j), DecSize(j))
           sh == Deconvolution(KERAS_2, image_dim_ordering, f, output_shape,
                               DeconvKernel, DecStride(j), x.shape)
       IN  /\ layers' = Append(layers,
                  Layer("Deconvolution", "dec", j, FALSE, <<x.id>>, sh, -1, ""))
           /\ dconv' = [dconv EXCEPT ![j] = NewTensor(sh)]
           /\ pc' = IF j < NumStages THEN Pc("dec", j, DecNextOp(j, "deconv"), 0)
                                     ELSE Pc("out", j, "act", 0)
    /\ UNCHANGED <<image_dim_ordering, KERAS_2, args, merge_params, i, x,
                   conv, px, out, unet, raised>>

DecBatchNorm ==
    /\ pc.part = "dec" /\ pc.op = "bn"
    /\ LET j == pc.stage
           in == dconv[j]
       IN  /\ layers' = Append(layers,
                  Layer("BatchNorm", "dec", j, FALSE, <<in.id>>, in.shape,
                        BatchNorm(DefaultBatchNormAxis), ""))
           /\ dconv' = [dconv EXCEPT ![j] = NewTensor(in.shape)]
           /\ pc' = Pc("dec", j, DecNextOp(j, "bn"), 0)
    /\ UNCHANGED <<image_dim_ordering, KERAS_2, args, merge_params, i, x,
                   conv, px, out, unet, raised>>

DecDropout ==
    /\ pc.part = "dec" /\ pc.op = "drop"
    /\ LET j == pc.stage
           in == dconv[j]
       IN  /\ layers' = Append(layers,
                  Layer("Dropout", "dec", j, FALSE, <<in.id>>, in.shape, -1, ""))
           /\ dconv' = [dconv EXCEPT ![j] = NewTensor(in.shape)]
           /\ pc' = Pc("dec", j, DecNextOp(j, "drop"), 0)
    /\ UNCHANGED <<image_dim_ordering, KERAS_2, args, merge_params, i, x,
                   conv, px, out, unet, raised>>

\* the merge fails when the two tensors differ outside the concat axis
DecConcatenate ==
    /\ pc.part = "dec" /\ pc.op = "concat"
    /\ LET j == pc.stage
           a == dconv[j]
           b == conv[SkipOf(j)]
       IN  IF ConcatCompatible(a.shape, b.shape, merge_params.concat_axis)
           THEN LET sh == concatenate_layers(a.shape, b.shape,
                                             merge_params.concat_axis)
                IN  /\ layers' = Append(layers,
                           Layer("Concatenate", "dec", j, FALSE, <<a.id, b.id>>,
                                 sh, merge_params.concat_axis, ""))
                    /\ x' = NewTensor(sh)
                    /\ pc' = Pc("dec", j, DecNextOp(j, "concat"), 0)
                    /\ UNCHANGED raised
           ELSE /\ raised' = "ShapeError"
                /\ pc' = Pc("raised", j, "none", 0)
                /\ UNCHANGED <<layers, x>>
    /\ UNCHANGED <<image_dim_ordering, KERAS_2, args, merge_params, i,
                   conv, dconv, px, out, unet>>

DecLeakyReLU ==
    /\ pc.part = "dec" /\ pc.op = "act"
    /\ layers' = Append(layers,
           Layer("LeakyReLU", "dec", pc.stage, FALSE, <<x.id>>, x.shape, -1, "leaky"))
    /\ x' = NewTensor(x.shape)
    /\ px' = NewTensor(x.shape)
    /\ pc' = Pc("dec", pc.stage, DecNextOp(pc.stage, "act"), 0)
    /\ UNCHANGED <<image_dim_ordering, KERAS_2, args, merge_params, i,
                   conv, dconv, out, unet, raised>>

(***************************************************************************)
(* out = Activation(act)(dconv9); unet = Model(i, out, name=name).         *)
(***************************************************************************)
FinalActivation ==
    /\ pc.part = "out" /\ pc.op = "act"
    /\ LET in == dconv[NumStages]
       IN  /\ layers' = Append(layers,
                  Layer("Activation", "out", NumStages, FALSE, <<in.id>>, in.shape,
                        -1, ActName(args.is_binary)))
           /\ out' = NewTensor(in.shape)
    /\ pc' = Pc("out", NumStages, "model", 0)
    /\ UNCHANGED <<image_dim_ordering, KERAS_2, args, merge_params, i, x,
                   conv, dconv, px, unet, raised>>

BuildModel ==
    /\ pc.part = "out" /\ pc.op = "model"
    /\ unet' = [name |-> args.name, input |-> i, output |-> out]
    /\ pc' = Pc("done", 0, "none", 0)
    /\ UNCHANGED <<image_dim_ordering, KERAS_2, args, merge_params, i, x,
                   conv, dconv, px, out, layers, raised>>

Next ==
    \/ set_image_dim_ordering
    \/ Start
    \/ EncConvolution
    \/ EncBatchNorm
    \/ EncLeakyReLU
    \/ PaddedConvolution
    \/ PaddedBatchNorm
    \/ PaddedLeakyReLU
    \/ PaddedReturn
    \/ DecDeconvolution
    \/ DecBatchNorm
    \/ DecDropout
    \/ DecConcatenate
    \/ DecLeakyReLU
    \/ FinalActivation
    \/ BuildModel

Spec == Init /\ [][Next]_vars

(***************************************************************************)
(* Reading the constructed graph.                                          *)
(***************************************************************************)
Done == pc.part = "done"

Rows(sh) == Dim(sh, RowAxis(image_dim_ordering))
Cols(sh) == Dim(sh, ColAxis(image_dim_ordering))
Channels(sh) == Dim(sh, ChannelAxis(image_dim_ordering))

\* the shape of the m-th tensor the n-th layer reads
InShape(n, m) == layers[layers[n].ins[m]].out

Indices(kind, part, stage, refine) ==
    {n \in DOMAIN layers :
        /\ layers[n].kind = kind /\ layers[n].part = part
        /\ layers[n].stage = stage /\ layers[n].refine = refine}

Count(kind, part, stage, refine) == Cardinality(Indices(kind, part, stage, refine))

IsTransform(n) == layers[n].kind \in {"Convolution", "Deconvolution"}

ExpectedOutput ==
    IF image_dim_ordering = "th"
    THEN <<args.batch_size, args.out_ch, 512, 512>>
    ELSE <<args.batch_size, 512, 512, args.out_ch>>

ExpectedInput ==
    IF image_dim_ordering = "th"
    THEN <<args.batch_size, args.in_ch, 512, 512>>
    ELSE <<args.batch_size, 512, 512, args.in_ch>>

(***************************************************************************)
(* C1: in both supported conventions, for every in_ch, out_ch, nf,         *)
(* batch_size, num_padded_conv and is_binary, no layer rejects its input   *)
(* and the returned graph maps an input of shape                           *)
(* (batch_size, in_ch, 512, 512) to an output of shape                     *)
(* (batch_size, out_ch, 512, 512), or their channel-last permutations.     *)
(***************************************************************************)
C1_OutputShape ==
    /\ image_dim_ordering \in {"th", "tf"} => raised = "none"
    /\ Done =>
        /\ image_dim_ordering \in {"th", "tf"}
        /\ unet.input.shape = ExpectedInput
        /\ unet.output.shape = ExpectedOutput
        /\ layers[unet.input.id].kind = "Input"
        /\ unet.output.id = Len(layers)

C1_Witness ==
    /\ Done
    /\ image_dim_ordering = "tf"
    /\ KERAS_2
    /\ args.num_padded_conv >= 1
    /\ args.in_ch = 1 /\ args.out_ch = 2 /\ args.batch_size = 1
    /\ unet.output.shape = <<1, 512, 512, 2>>

(***************************************************************************)
(* C2: when the ambient convention is neither 'th' nor 'tf', the call      *)
(* raises ValueError with no layer constructed and no model returned.      *)
(***************************************************************************)
C2_UnsupportedRaisesEmpty ==
    (image_dim_ordering \notin {"th", "tf"} /\ pc.part # "start") =>
        /\ raised = "ValueError"
        /\ pc.part = "raised"
        /\ layers = <<>>
        /\ i = NoTensor
        /\ unet = NoModel

C2_Witness ==
    /\ image_dim_ordering = "other"
    /\ raised = "ValueError"
    /\ layers = <<>>

(***************************************************************************)
(* C3: the last layer of the returned graph is the only Activation layer,  *)
(* it reads the output of the 9th Deconvolution, and it is sigmoid         *)
(* (range [0,1]) exactly when is_binary, tanh (range [-1,1]) otherwise.    *)
(***************************************************************************)
ActRange(act) == IF act = "sigmoid" THEN <<0, 1>> ELSE <<-1, 1>>

C3_FinalActivation ==
    Done =>
        LET last == layers[Len(layers)]
        IN  /\ last.kind = "Activation"
            /\ Cardinality({n \in DOMAIN layers : layers[n].kind = "Activation"}) = 1
            /\ Len(last.ins) = 1
            /\ last.ins[1] \in Indices("Deconvolution", "dec", 9, FALSE)
            /\ unet.output.id = Len(layers)
            /\ (last.act = "sigmoid") <=> args.is_binary
            /\ (last.act = "tanh") <=> ~args.is_binary
            /\ ActRange(last.act) = IF args.is_binary THEN <<0, 1>> ELSE <<-1, 1>>

C3_Witness ==
    /\ Done
    /\ args.is_binary
    /\ layers[Len(layers)].act = "sigmoid"
    /\ image_dim_ordering = "th"

(***************************************************************************)
(* C4: at the concatenation of decoder stage j (1..8) the channel count of *)
(* the result is the channel count of the decoder tensor plus that of the  *)
(* encoder tensor: nf*16 for stages 1-5, nf*8, nf*4, nf*2 for stages 6, 7, *)
(* 8; and the next Convolution or Deconvolution constructed reads a tensor *)
(* with that channel count.                                                *)
(***************************************************************************)
ConcatSum(j) ==
    CASE j \in 1..5 -> args.nf * 16
      [] j = 6 -> args.nf * 8
      [] j = 7 -> args.nf * 4
      [] j = 8 -> args.nf * 2

C4_ConcatChannels ==
    \A n \in DOMAIN layers :
        layers[n].kind = "Concatenate" =>
            LET j == layers[n].stage
                sum == Channels(InShape(n, 1)) + Channels(InShape(n, 2))
                later == {m \in DOMAIN layers : m > n /\ IsTransform(m)}
            IN  /\ j \in 1..8
                /\ layers[layers[n].ins[1]].part = "dec"
                /\ layers[layers[n].ins[1]].stage = j
                /\ layers[layers[n].ins[2]].part = "enc"
                /\ Channels(layers[n].out) = sum
                /\ sum = ConcatSum(j)
                /\ \A m \in later :
                      (\A q \in later : m <= q) => Channels(InShape(m, 1)) = sum

C4_Witness ==
    /\ Done
    /\ args.nf = 2
    /\ args.num_padded_conv >= 1
    /\ \E n \in DOMAIN layers :
          /\ layers[n].kind = "Concatenate" /\ layers[n].stage = 1
          /\ Channels(layers[n].out) = 32
          /\ layers[n + 2].kind = "Convolution"
          /\ Channels(InShape(n + 2, 1)) = 32

(***************************************************************************)
(* C5 (as amended): with num_padded_conv = n, each of encoder stages 1..8  *)
(* and each of decoder stages 1..8 carries exactly n refinement blocks     *)
(* (Convolution, BatchNorm, LeakyReLU) and stage 9 of either side carries  *)
(* none; every layer of a block leaves rows and columns unchanged; the     *)
(* output shape is the same for every n.                                   *)
(***************************************************************************)
Blocks(part, stage, n) ==
    /\ Count("Convolution", part, stage, TRUE) = n
    /\ Count("BatchNorm", part, stage, TRUE) = n
    /\ Count("LeakyReLU", part, stage, TRUE) = n

RefinementKeepsSize ==
    \A n \in DOMAIN layers :
        layers[n].refine =>
            /\ Rows(layers[n].out) = Rows(InShape(n, 1))
            /\ Cols(layers[n].out) = Cols(InShape(n, 1))

C5_RefinementBlocks ==
    /\ RefinementKeepsSize
    /\ Done =>
        /\ \A st \in 1..8 : Blocks("enc", st, args.num_padded_conv)
                            /\ Blocks("dec", st, args.num_padded_conv)
        /\ Blocks("enc", 9, 0) /\ Blocks("dec", 9, 0)
        /\ unet.output.shape = ExpectedOutput

\* C5 as stated: all 9 encoder and all 9 decoder stages carry n blocks
C5_Original ==
    /\ RefinementKeepsSize
    /\ Done =>
        /\ \A st \in 1..9 : Blocks("enc", st, args.num_padded_conv)
                            /\ Blocks("dec", st, args.num_padded_conv)
        /\ unet.output.shape = ExpectedOutput

C5_Witness ==
    /\ Done
    /\ args.num_padded_conv = 2
    /\ Count("Convolution", "enc", 8, TRUE) = 2
    /\ Count("Convolution", "dec", 1, TRUE) = 2
    /\ Count("Convolution", "dec", 9, TRUE) = 0

(***************************************************************************)
(* C6: the spatial size (rows = columns) is 512 at the Input, is halved by *)
(* the transform of each of the 9 encoder stages (512 down to 1), doubled  *)
(* by the transform of each of the 9 decoder stages (1 up to 512), and     *)
(* left unchanged by every other layer.                                    *)
(***************************************************************************)
C6_LayerSize(n) ==
    LET l == layers[n]
    IN  /\ Rows(l.out) = Cols(l.out)
        /\ CASE l.kind = "Input" -> Rows(l.out) = 512
             [] l.kind = "Convolution" /\ ~l.refine ->
                    /\ l.part = "enc"
                    /\ Rows(InShape(n, 1)) * Pow2(l.stage - 1) = 512
                    /\ Rows(l.out) * 2 = Rows(InShape(n, 1))
             [] l.kind = "Deconvolution" ->
                    /\ l.part = "dec"
                    /\ Rows(InShape(n, 1)) = Pow2(l.stage - 1)
                    /\ Rows(l.out) = 2 * Rows(InShape(n, 1))
             [] OTHER ->
                    \A m \in DOMAIN l.ins :
                        /\ Rows(InShape(n, m)) = Rows(l.out)
                        /\ Cols(InShape(n, m)) = Cols(l.out)

C6_SpatialSize ==
    /\ \A n \in DOMAIN layers : C6_LayerSize(n)
    /\ Done =>
        /\ \A st \in 1..9 : Count("Convolution", "enc", st, FALSE) = 1
                            /\ Count("Deconvolution", "dec", st, FALSE) = 1
        /\ Rows(unet.output.shape) = 512 /\ Cols(unet.output.shape) = 512

C6_Witness ==
    /\ Done
    /\ args.num_padded_conv = 1
    /\ \E n \in Indices("Convolution", "enc", 9, FALSE) :
          Rows(layers[n].out) = 1 /\ Rows(InShape(n, 1)) = 2
    /\ \E n \in Indices("Deconvolution", "dec", 9, FALSE) :
          Rows(layers[n].out) = 512 /\ Rows(InShape(n, 1)) = 256

(***************************************************************************)
(* C7: the concatenation of decoder stage j (1..8) joins the tensor of     *)
(* decoder stage j with the output of encoder stage 9 - j taken after that *)
(* stage's refinement blocks, and the two tensors have the same shape in   *)
(* every axis: channels nf * (8,8,8,8,8,4,2,1)[j] and equal rows, columns  *)
(* and batch.  No concatenation is rejected.                               *)
(***************************************************************************)
Mirror == <<8, 8, 8, 8, 8, 4, 2, 1>>

LastOfStage(n) ==
    \A m \in DOMAIN layers :
        (layers[m].part = layers[n].part /\ layers[m].stage = layers[n].stage)
            => m <= n

C7_SkipPairs ==
    /\ raised # "ShapeError"
    /\ \A n \in DOMAIN layers :
        layers[n].kind = "Concatenate" =>
            LET j == layers[n].stage
                d == layers[n].ins[1]
                e == layers[n].ins[2]
            IN  /\ j \in 1..8
                /\ layers[d].part = "dec" /\ layers[d].stage = j
                /\ layers[e].part = "enc" /\ layers[e].stage = 9 - j
                /\ LastOfStage(e)
                /\ layers[d].out = layers[e].out
                /\ Channels(layers[e].out) = args.nf * Mirror[j]
                /\ layers[n].axis = ChannelAxis(image_dim_ordering)
    /\ Done => \A j \in 1..8 : Count("Concatenate", "dec", j, FALSE) = 1

C7_Witness ==
    /\ Done
    /\ args.num_padded_conv = 2
    /\ image_dim_ordering = "tf"
    /\ \E n \in Indices("Concatenate", "dec", 8, FALSE) :
          /\ layers[layers[n].ins[2]].stage = 1
          /\ layers[layers[n].ins[2]].refine
          /\ layers[layers[n].ins[2]].out = <<args.batch_size, 256, 256, args.nf>>

(***************************************************************************)
(* C8 (as amended): the graph holds a Dropout layer in decoder stage j     *)
(* exactly when j is 1, 2 or 3, and none in any encoder stage.             *)
(***************************************************************************)
DropoutStages ==
    {layers[n].stage : n \in {m \in DOMAIN layers :
        layers[m].kind = "Dropout" /\ layers[m].part = "dec"}}

DropoutOnlyInDecoder ==
    \A n \in DOMAIN layers : layers[n].kind = "Dropout" => layers[n].part = "dec"

C8_DropoutStages ==
    /\ DropoutOnlyInDecoder
    /\ DropoutStages \subseteq {1, 2, 3}
    /\ Done => DropoutStages = {1, 2, 3}

\* C8 as stated: Dropout in decoder stages 1 and 2 and in no other
C8_Original ==
    /\ DropoutOnlyInDecoder
    /\ DropoutStages \subseteq {1, 2}
    /\ Done => DropoutStages = {1, 2}

C8_Witness ==
    /\ Done
    /\ \E n \in Indices("Dropout", "dec", 3, FALSE) :
          layers[n - 1].kind = "BatchNorm" /\ layers[n + 1].kind = "Concatenate"

(***************************************************************************)
(* C9 (as amended): the layers are constructed in this order: the Input;   *)
(* for encoder stages 1..9 the strided Convolution, BatchNorm, LeakyReLU   *)
(* and after them (stages 1..8 only) the n refinement blocks; for decoder  *)
(* stages 1..8 Deconvolution, BatchNorm, Dropout (stages 1..3),            *)
(* Concatenate, LeakyReLU, then the n refinement blocks; decoder stage 9   *)
(* is a Deconvolution alone, followed by the final Activation.             *)
(***************************************************************************)
Tag(kind, part, stage, refine) == <<kind, part, stage, refine>>

TagOf(l) == <<l.kind, l.part, l.stage, l.refine>>

RECURSIVE BlockTags(_, _, _)
BlockTags(part, stage, n) ==
    IF n = 0 THEN <<>>
    ELSE <<Tag("Convolution", part, stage, TRUE),
           Tag("BatchNorm", part, stage, TRUE),
           Tag("LeakyReLU", part, stage, TRUE)>> \o BlockTags(part, stage, n - 1)

EncStageTags(k, n) ==
    <<Tag("Convolution", "enc", k, FALSE), Tag("BatchNorm", "enc", k, FALSE),
      Tag("LeakyReLU", "enc", k, FALSE)>>
    \o (IF k <= 8 THEN BlockTags("enc", k, n) ELSE <<>>)

DecStageTags(j, n) ==
    IF j = 9 THEN <<Tag("Deconvolution", "dec", 9, FALSE)>>
    ELSE <<Tag("Deconvolution", "dec", j, FALSE), Tag("BatchNorm", "dec", j, FALSE)>>
         \o (IF j <= 3 THEN <<Tag("Dropout", "dec", j, FALSE)>> ELSE <<>>)
         \o <<Tag("Concatenate", "dec", j, FALSE), Tag("LeakyReLU", "dec", j, FALSE)>>
         \o BlockTags("dec", j, n)

RECURSIVE EncTags(_, _)
EncTags(k, n) ==
    IF k = 0 THEN <<>> ELSE EncTags(k - 1, n) \o EncStageTags(k, n)

RECURSIVE DecTags(_, _)
DecTags(j, n) ==
    IF j = 0 THEN <<>> ELSE DecTags(j - 1, n) \o DecStageTags(j, n)

ExpectedTags(n) ==
    <<Tag("Input", "input", 0, FALSE)>> \o EncTags(9, n) \o DecTags(9, n)
    \o <<Tag("Activation", "out", 9, FALSE)>>

C9_StatementOrder ==
    LET want == ExpectedTags(args.num_padded_conv)
    IN  /\ Len(layers) <= Len(want)
        /\ \A n \in DOMAIN layers : TagOf(layers[n]) = want[n]
        /\ Done => Len(layers) = Len(want)

\* the layers of one stage, in construction order
StageTags(part, stage) ==
    LET sel == SelectSeq(layers, LAMBDA l : l.part = part /\ l.stage = stage)
    IN  [n \in DOMAIN sel |-> TagOf(sel[n])]

Rank(kind) ==
    CASE kind = "Deconvolution" -> 1
      [] kind = "BatchNorm" -> 2
      [] kind = "Dropout" -> 3
      [] kind = "Concatenate" -> 4
      [] OTHER -> 5

\* C9 as stated: within every decoder stage the layers present follow the
\* order Deconvolution, BatchNorm, Dropout, Concatenate, LeakyReLU,
\* refinement blocks; in the encoder the refinement blocks of a stage come
\* before the stage's strided Convolution
C9_Original ==
    Done =>
        /\ \A j \in 1..9 :
             \A a, b \in {n \in DOMAIN layers :
                            layers[n].part = "dec" /\ layers[n].stage = j} :
                 a < b =>
                     /\ ~(layers[a].refine /\ ~layers[b].refine)
                     /\ (~layers[a].refine /\ ~layers[b].refine)
                            => Rank(layers[a].kind) < Rank(layers[b].kind)
        /\ \A k \in 1..9 :
             \A r \in Indices("Convolution", "enc", k, TRUE) :
                 \A c \in Indices("Convolution", "enc", k, FALSE) : r < c

C9_Witness ==
    /\ Done
    /\ args.num_padded_conv = 1
    /\ StageTags("dec", 2) =
          <<Tag("Deconvolution", "dec", 2, FALSE), Tag("BatchNorm", "dec", 2, FALSE),
            Tag("Dropout", "dec", 2, FALSE), Tag("Concatenate", "dec", 2, FALSE),
            Tag("LeakyReLU", "dec", 2, FALSE), Tag("Convolution", "dec", 2, TRUE),
            Tag("BatchNorm", "dec", 2, TRUE), Tag("LeakyReLU", "dec", 2, TRUE)>>
    /\ \E r \in Indices("Convolution", "enc", 1, TRUE) :
          \E c \in Indices("Convolution", "enc", 1, FALSE) : r > c

(***************************************************************************)
(* C10: in both supported conventions every BatchNorm layer normalizes     *)
(* along the axis the skip connections concatenate along, the channel axis *)
(* of the convention (1 for 'th', 3 for 'tf').                             *)
(***************************************************************************)
C10_NormAxisIsChannelAxis ==
    \A n \in DOMAIN layers :
        layers[n].kind = "BatchNorm" =>
            /\ layers[n].axis = merge_params.concat_axis
            /\ layers[n].axis = (IF image_dim_ordering = "th" THEN 1 ELSE 3)

====
